---- MODULE Spec2Model ----
(***************************************************************************)
(* A model of the computed-tomography lab: the attenuation objects of      *)
(* attenuation_object.py (Rectangle, Circle, ObjectCollection, ImageObject *)
(* and the line integral project_attenuation) and the Projection grid of   *)
(* projection.py (construction, theta/xi, get_continuous, add_object,      *)
(* back_project, filtered_back_project).                                   *)
(*                                                                         *)
(* Numbers.  Python floats are modelled by exact rationals [n, d] in       *)
(* lowest terms with d > 0.  Angles are measured in quarter turns, so that *)
(* theta = 1 is pi/2 and np.cos / np.sin are exact on the angles the model *)
(* uses.  scipy.integrate.quad is modelled by the midpoint sum over the    *)
(* unit cells of the integration range, which is the exact integral of the *)
(* piecewise constant integrands that arise here, with quad's sign         *)
(* convention for a range given upper bound first.  Image.getpixel is taken *)
(* to truncate its coordinates to a pixel index.                           *)
(*                                                                         *)
(* Scope.  Lines 117-119 of projection.py do not parse.  The defect is     *)
(* modelled where it sits, in back_project; the other methods of           *)
(* Projection are modelled as they run once the file parses.               *)
(*                                                                         *)
(* Four specifications share the variables: Spec (the Projection grid and  *)
(* its methods), SpecColl (ObjectCollection instances that may hold one    *)
(* another), SpecRect (Rectangle as a function of its arguments) and       *)
(* SpecPar (the body of the add_object loop run as one task per cell by a  *)
(* pool of workers; the code itself runs the loop sequentially).           *)
(***************************************************************************)
EXTENDS Integers, Sequences, FiniteSets, TLC

VARIABLES
    phase,      \* Projection: "new" before __init__, "ready" after, "failed" if __init__ raised
    grid,       \* Projection: the scalar attributes set by __init__
    data,       \* Projection.data, theta_idx -> xi_idx -> value
    calls,      \* history: the add_object calls that have returned
    objects,    \* heap of ObjectCollection instances: id -> self.objects
    result,     \* what the last operation returned or raised
    par         \* the cell tasks of one add_object call run by a pool of workers

vars == <<phase, grid, data, calls, objects, result, par>>

-----------------------------------------------------------------------------
(* Bounds of the model *)

MaxCalls == 2
MaxAppends == 3
MaxParCalls == 2

-----------------------------------------------------------------------------
(* Exact rational arithmetic standing for Python float arithmetic *)

Abs(i) == IF i < 0 THEN -i ELSE i

RECURSIVE GCD(_, _)
GCD(a, b) == IF b = 0 THEN a ELSE GCD(b, a % b)

\* the rational n/d in lowest terms, d # 0
Rat(n, d) ==
    LET g == GCD(Abs(n), Abs(d))
        s == IF d < 0 THEN -1 ELSE 1
    IN  [n |-> (s * n) \div g, d |-> (s * d) \div g]

R(i) == [n |-> i, d |-> 1]
RAdd(a, b) == Rat(a.n * b.d + b.n * a.d, a.d * b.d)
RSub(a, b) == Rat(a.n * b.d - b.n * a.d, a.d * b.d)
RMul(a, b) == Rat(a.n * b.n, a.d * b.d)
\* b # 0
RDiv(a, b) == Rat(a.n * b.d, a.d * b.n)
RLe(a, b) == a.n * b.d <= b.n * a.d
RLt(a, b) == a.n * b.d < b.n * a.d
\* Python int(): truncation toward zero
RInt(a) == IF a.n >= 0 THEN a.n \div a.d ELSE -((-a.n) \div a.d)
RFloor(a) == a.n \div a.d

\* np.cos and np.sin of an angle of q quarter turns, q an integer
Cos(q) == CASE q.n % 4 = 0 -> 1 [] q.n % 4 = 1 -> 0 [] q.n % 4 = 2 -> -1 [] OTHER -> 0
Sin(q) == CASE q.n % 4 = 0 -> 0 [] q.n % 4 = 1 -> 1 [] q.n % 4 = 2 -> 0 [] OTHER -> -1

-----------------------------------------------------------------------------
(* Outcomes of a call: a returned value or a raised exception *)

Ok(v) == [kind |-> "ok", val |-> v]
Raise(e) == [kind |-> e, val |-> 0]

-----------------------------------------------------------------------------
(* attenuation_object.py: the objects *)

\* Rectangle.__init__
Rectangle(x1, x2, y1, y2, attenuation_factor) ==
    [type |-> "Rectangle",
     x1 |-> IF x1 <= x2 THEN x1 ELSE x2,
     x2 |-> IF x1 <= x2 THEN x2 ELSE x1,
     y1 |-> IF y1 <= y2 THEN y1 ELSE y2,
     y2 |-> IF y1 <= y2 THEN y2 ELSE y1,
     attenuation_factor |-> attenuation_factor]

\* a Rectangle.attenuation that leaves the boundary out
Rectangle_attenuation_open(o, x, y) ==
    IF /\ RLt(R(o.x1), x) /\ RLt(x, R(o.x2))
       /\ RLt(R(o.y1), y) /\ RLt(y, R(o.y2))
    THEN o.attenuation_factor
    ELSE 0

\* Rectangle.attenuation
Rectangle_attenuation(o, x, y) ==
    IF /\ RLe(R(o.x1), x) /\ RLe(x, R(o.x2))
       /\ RLe(R(o.y1), y) /\ RLe(y, R(o.y2))
    THEN o.attenuation_factor
    ELSE 0

\* Circle.__init__
Circle(x0, y0, r, attenuation_factor) ==
    [type |-> "Circle", x0 |-> x0, y0 |-> y0, r |-> Abs(r),
     attenuation_factor |-> attenuation_factor]

\* Circle.attenuation: sqrt(dx^2 + dy^2) <= r, compared as squares (r >= 0)
Circle_attenuation(o, x, y) ==
    LET dx == RSub(x, R(o.x0))
        dy == RSub(y, R(o.y0))
    IN  IF RLe(RAdd(RMul(dx, dx), RMul(dy, dy)), R(o.r * o.r))
        THEN o.attenuation_factor
        ELSE 0

\* ImageObject.__init__: image is a grey-level raster, <<column, row>> -> pixel
ImageObject(image, width, height) ==
    [type |-> "ImageObject", image |-> image, width |-> width, height |-> height,
     scale_factor |-> Rat(IF width >= height THEN width ELSE height, 2)]

\* ImageObject.attenuation: the arguments are rebound locally, the object is only read
ImageObject_attenuation(o, x, y) ==
    LET px == RAdd(RMul(x, o.scale_factor), Rat(o.width, 2))
        py == RAdd(RMul(y, o.scale_factor), Rat(o.height, 2))
    IN  IF /\ RLe(R(0), px) /\ RLt(px, R(o.width))
           /\ RLe(R(0), py) /\ RLt(py, R(o.height))
        THEN o.image[<<RInt(px), RInt(py)>>]
        ELSE 0

\* a reference to the ObjectCollection instance c of the heap
Collection(c) == [type |-> "ObjectCollection", id |-> c]

\* isinstance(obj, AttenuationObject)
IsAttenuationObject(obj) ==
    obj.type \in {"Rectangle", "Circle", "ObjectCollection", "ImageObject"}

\* the identities of the ObjectCollection instances of the model
CollIds == {"c1", "c2"}

\* the interpreter's recursion limit, scaled to the heap: a chain of distinct
\* collections is never deeper than the number of collections
RecursionLimit == Cardinality(CollIds)

RECURSIVE attenuation(_, _, _, _, _)
RECURSIVE Collection_attenuation(_, _, _, _, _, _, _)

\* obj.attenuation(x, y), dispatched on the class of obj; h is the heap of
\* collections and depth the number of ObjectCollection frames on the stack
attenuation(h, obj, x, y, depth) ==
    CASE obj.type = "Rectangle" -> Ok(Rectangle_attenuation(obj, x, y))
      [] obj.type = "Circle" -> Ok(Circle_attenuation(obj, x, y))
      [] obj.type = "ImageObject" -> Ok(ImageObject_attenuation(obj, x, y))
      [] obj.type = "ObjectCollection" ->
            IF depth >= RecursionLimit
            THEN Raise("RecursionError")
            ELSE Collection_attenuation(h, h[obj.id], 1, 0, x, y, depth + 1)
      [] OTHER -> Raise("AttributeError")

\* ObjectCollection.attenuation: the loop over self.objects from member i on,
\* with the running total acc
Collection_attenuation(h, objs, i, acc, x, y, depth) ==
    IF i > Len(objs)
    THEN Ok(acc)
    ELSE LET a == attenuation(h, objs[i], x, y, depth)
         IN  IF a.kind # "ok"
             THEN a
             ELSE Collection_attenuation(h, objs, i + 1, acc + a.val, x, y, depth)

\* the integrand of project_attenuation at depth eta
integrand_eta(h, obj, theta, xi, eta) ==
    LET x == RAdd(RMul(xi, R(Cos(theta))), RMul(eta, R(Sin(theta))))
        y == RSub(RMul(eta, R(Cos(theta))), RMul(xi, R(Sin(theta))))
    IN  attenuation(h, obj, x, y, 0)

\* the sum of the integrand at the midpoints of the unit cells [k, k+1], lo <= k < hi
RECURSIVE MidpointSum(_, _, _, _, _, _, _)
MidpointSum(h, obj, theta, xi, k, hi, acc) ==
    IF k >= hi
    THEN Ok(acc)
    ELSE LET a == integrand_eta(h, obj, theta, xi, Rat(2 * k + 1, 2))
         IN  IF a.kind # "ok"
             THEN a
             ELSE MidpointSum(h, obj, theta, xi, k + 1, hi, acc + a.val)

\* scipy.integrate.quad(f, a, b)[0]: the integral from a to b, which is minus
\* the integral from b to a when a > b
quad(h, obj, theta, xi, a, b) ==
    IF a <= b
    THEN MidpointSum(h, obj, theta, xi, a, b, 0)
    ELSE LET s == MidpointSum(h, obj, theta, xi, b, a, 0)
         IN  IF s.kind = "ok" THEN Ok(-s.val) ELSE s

\* AttenuationObject.project_attenuation
project_attenuation(h, obj, theta, xi, eta_range) ==
    quad(h, obj, theta, xi, eta_range[1], eta_range[2])

-----------------------------------------------------------------------------
(* attenuation_object.py: ObjectCollection.append *)

\* an append without the isinstance check
append_unchecked(h, c, obj) ==
    [objects |-> [h EXCEPT ![c] = Append(h[c], obj)], out |-> Ok("None")]

\* ObjectCollection.append on the collection c of the heap h: the new heap and
\* what the call returned or raised
append(h, c, obj) ==
    IF ~IsAttenuationObject(obj)
    THEN [objects |-> h, out |-> Raise("RuntimeError")]
    ELSE [objects |-> [h EXCEPT ![c] = Append(h[c], obj)], out |-> Ok("None")]

-----------------------------------------------------------------------------
(* projection.py: the Projection grid *)

NoGrid == [theta_min |-> 0, theta_max |-> 0, theta_steps |-> 0, theta_step_size |-> R(0),
           xi_min |-> 0, xi_max |-> 0, xi_steps |-> 0, xi_step_size |-> R(0)]

Min2(p) == IF p[1] <= p[2] THEN p[1] ELSE p[2]
Max2(p) == IF p[1] <= p[2] THEN p[2] ELSE p[1]

\* np.zeros((rows, cols))
zeros(rows, cols) == [t \in 0 .. rows - 1 |-> [x \in 0 .. cols - 1 |-> 0]]

\* Projection.__init__: the attributes and data it sets, or the exception raised
\* by the division by a step count (lines 44, 49) or by np.zeros (line 51)
Projection_init(theta_range, theta_steps, xi_range, xi_steps) ==
    IF theta_steps = 0 \/ xi_steps = 0
    THEN [out |-> Raise("ZeroDivisionError"), grid |-> NoGrid, data |-> <<>>]
    ELSE IF theta_steps < 0 \/ xi_steps < 0
    THEN [out |-> Raise("ValueError"), grid |-> NoGrid, data |-> <<>>]
    ELSE [out |-> Ok("None"),
          grid |-> [theta_min |-> Min2(theta_range),
                    theta_max |-> Max2(theta_range),
                    theta_steps |-> theta_steps,
                    theta_step_size |-> Rat(Max2(theta_range) - Min2(theta_range), theta_steps),
                    xi_min |-> Min2(xi_range),
                    xi_max |-> Max2(xi_range),
                    xi_steps |-> xi_steps,
                    xi_step_size |-> Rat(Max2(xi_range) - Min2(xi_range), xi_steps)],
          data |-> zeros(theta_steps, xi_steps)]

\* Projection.theta
theta(g, idx) == RAdd(R(g.theta_min), RMul(R(idx), g.theta_step_size))

\* Projection.xi
xi(g, idx) == RAdd(R(g.xi_min), RMul(R(idx), g.xi_step_size))

\* Projection.get_continuous_custom.  xi_type is the type of the argument xi:
\* dividing a Python float by the zero step size raises ZeroDivisionError, while
\* a numpy float64 yields -inf, nan or inf (nan compares false and int(nan) raises
\* ValueError).
get_continuous_custom(g, theta_idx, xi_val, xi_type, d) ==
    LET num == RSub(xi_val, R(g.xi_min))
    IN  IF g.xi_step_size.n = 0
        THEN IF xi_type = "float" THEN Raise("ZeroDivisionError")
             ELSE IF num.n < 0 THEN Ok(d[theta_idx][0])
             ELSE IF num.n > 0 THEN Ok(d[theta_idx][g.xi_steps - 1])
             ELSE Raise("ValueError")
        ELSE LET xi_idx == RDiv(num, g.xi_step_size)
             IN  IF RLt(xi_idx, R(0)) THEN Ok(d[theta_idx][0])
                 ELSE IF RLe(R(g.xi_steps), xi_idx) THEN Ok(d[theta_idx][g.xi_steps - 1])
                 ELSE Ok(d[theta_idx][RInt(xi_idx)])

\* Projection.get_continuous
get_continuous(g, theta_idx, xi_val, xi_type, d) ==
    get_continuous_custom(g, theta_idx, xi_val, xi_type, d)

\* the cell the k-th iteration of the loops of add_object works on (row-major)
CellOf(g, k) == [theta_idx |-> k \div g.xi_steps, xi_idx |-> k % g.xi_steps]

\* the value the body of the loop adds to data[theta_idx, xi_idx]
cell_contribution(h, g, obj, eta_range, cell) ==
    project_attenuation(h, obj, theta(g, cell.theta_idx), xi(g, cell.xi_idx), eta_range)

\* a load that reads the first cell of the row instead of the task's own cell
cell_load_row_start(d, cell) == d[cell.theta_idx][0]

\* the load of the body of the loop: the old value of data[theta_idx, xi_idx]
cell_load(d, cell) == d[cell.theta_idx][cell.xi_idx]

\* a store that assigns instead of adding
cell_store_overwrite(d, cell, old, v) ==
    [d EXCEPT ![cell.theta_idx][cell.xi_idx] = v]

\* the store of the body of the loop: data[theta_idx, xi_idx] = old + v
cell_store(d, cell, old, v) ==
    [d EXCEPT ![cell.theta_idx][cell.xi_idx] = old + v]

\* Projection.add_object from iteration k on: the data it leaves and what the
\* call returned or raised (an exception leaves the cells written so far)
RECURSIVE add_object_from(_, _, _, _, _, _)
add_object_from(h, g, d, obj, eta_range, k) ==
    IF k >= g.theta_steps * g.xi_steps
    THEN [data |-> d, out |-> Ok("None")]
    ELSE LET cell == CellOf(g, k)
             v == cell_contribution(h, g, obj, eta_range, cell)
         IN  IF v.kind # "ok"
             THEN [data |-> d, out |-> v]
             ELSE add_object_from(h, g,
                     cell_store(d, cell, cell_load(d, cell), v.val),
                     obj, eta_range, k + 1)

\* Projection.add_object
add_object(h, g, d, obj, eta_range) == add_object_from(h, g, d, obj, eta_range, 0)

\* Projection.back_project.  Lines 117-119 are not valid Python (no colon after
\* the two for headers, a positional argument after a keyword argument), so the
\* file raises SyntaxError as it stands; with the syntax repaired the first
\* iteration raises NameError (project_attenuation and theta are not names in
\* scope) and the function has no return statement.  The matrix is never
\* returned and self.data is not touched.
back_project_outcomes == {Raise("SyntaxError"), Raise("NameError")}

\* a filtered_back_project that returns an unfiltered, empty reconstruction
filtered_back_project_plain(g, d, f) ==
    [data |-> d, out |-> Ok(zeros(g.xi_steps, g.xi_steps))]

\* Projection.filtered_back_project
filtered_back_project(g, d, f) == [data |-> d, out |-> Raise("NotImplementedError")]

-----------------------------------------------------------------------------
(* Inputs of the model *)

\* the objects ctlab.py builds, with integer attenuation factors
rectangle_1 == Rectangle(-1, 0, -1, 0, 1)
rectangle_2 == Rectangle(1, 0, 1, 0, 2)
circle_1 == Circle(0, 0, -1, 1)
image_1 == ImageObject([p \in (0 .. 1) \X (0 .. 1) |-> 1 + p[1] + 2 * p[2]], 2, 2)

\* values that are not AttenuationObjects
NonSources == {[type |-> "int"], [type |-> "str"]}

\* the scene the Projection is filled from: c1 holds two shapes, c2 holds c1 and an image
Scene == [c \in CollIds |->
            IF c = "c1" THEN <<rectangle_1, circle_1>>
            ELSE <<Collection("c1"), image_1>>]

Sources == {rectangle_2, Collection("c2")}

\* angles are in quarter turns: <<0, 2>> is [0, pi]
ThetaRanges == {<<0, 2>>, <<2, 0>>, <<0, 0>>}
ThetaSteps == {-1, 0, 2}
XiRanges == {<<-2, 2>>, <<2, -2>>, <<1, 1>>}
XiSteps == {-1, 0, 3}
EtaRanges == {<<-1, 1>>, <<1, -1>>}
XiValues == {R(-3), R(-2), Rat(-3, 2), R(0), R(1), R(2), R(3)}
XiTypes == {"float", "float64"}
Filters == {"identity", "ramp"}

\* an array of the shape of data whose cells are pairwise different
external_data(g) ==
    [t \in 0 .. g.theta_steps - 1 |-> [x \in 0 .. g.xi_steps - 1 |-> 1 + x + g.xi_steps * t]]

ParIdle == [active |-> FALSE]

-----------------------------------------------------------------------------
(* The Projection grid: one action per method *)

Init ==
    /\ phase = "new"
    /\ grid = NoGrid
    /\ data = <<>>
    /\ calls = <<>>
    /\ objects = Scene
    /\ result = [op |-> "none"]
    /\ par = ParIdle

Construct ==
    /\ phase = "new"
    /\ \E theta_range \in ThetaRanges, theta_steps \in ThetaSteps,
          xi_range \in XiRanges, xi_steps \in XiSteps :
          LET r == Projection_init(theta_range, theta_steps, xi_range, xi_steps)
          IN  /\ phase' = IF r.out.kind = "ok" THEN "ready" ELSE "failed"
              /\ grid' = r.grid
              /\ data' = r.data
              /\ result' = [op |-> "__init__", theta_range |-> theta_range,
                            theta_steps |-> theta_steps, xi_range |-> xi_range,
                            xi_steps |-> xi_steps, out |-> r.out]
    /\ UNCHANGED <<calls, objects, par>>

ThetaAt ==
    /\ phase = "ready"
    /\ \E idx \in 0 .. grid.theta_steps :
          result' = [op |-> "theta", idx |-> idx, out |-> Ok(theta(grid, idx))]
    /\ UNCHANGED <<phase, grid, data, calls, objects, par>>

XiAt ==
    /\ phase = "ready"
    /\ \E idx \in 0 .. grid.xi_steps :
          result' = [op |-> "xi", idx |-> idx, out |-> Ok(xi(grid, idx))]
    /\ UNCHANGED <<phase, grid, data, calls, objects, par>>

GetContinuous ==
    /\ phase = "ready"
    /\ \E theta_idx \in 0 .. grid.theta_steps - 1, xi_val \in XiValues :
       \E out \in {get_continuous(grid, theta_idx, xi_val, xi_type, data) : xi_type \in XiTypes} :
          result' = [op |-> "get_continuous", theta_idx |-> theta_idx, xi |-> xi_val,
                     out |-> out]
    /\ UNCHANGED <<phase, grid, data, calls, objects, par>>

GetContinuousCustom ==
    /\ phase = "ready"
    /\ \E theta_idx \in 0 .. grid.theta_steps - 1, xi_val \in XiValues :
       \E out \in {get_continuous_custom(grid, theta_idx, xi_val, xi_type, external_data(grid)) :
                      xi_type \in XiTypes} :
          result' = [op |-> "get_continuous_custom", theta_idx |-> theta_idx, xi |-> xi_val,
                     out |-> out]
    /\ UNCHANGED <<phase, grid, data, calls, objects, par>>

AddObject ==
    /\ phase = "ready"
    /\ Len(calls) < MaxCalls
    /\ \E obj \in Sources, eta_range \in EtaRanges :
          LET r == add_object(objects, grid, data, obj, eta_range)
          IN  /\ data' = r.data
              /\ calls' = IF r.out.kind = "ok"
                          THEN Append(calls, [obj |-> obj, eta_range |-> eta_range])
                          ELSE calls
              /\ result' = [op |-> "add_object", obj |-> obj, eta_range |-> eta_range,
                            out |-> r.out]
    /\ UNCHANGED <<phase, grid, objects, par>>

BackProject ==
    /\ phase = "ready"
    /\ \E out \in back_project_outcomes :
          result' = [op |-> "back_project", out |-> out]
    /\ UNCHANGED <<phase, grid, data, calls, objects, par>>

FilteredBackProject ==
    /\ phase = "ready"
    /\ \E f \in Filters :
          LET r == filtered_back_project(grid, data, f)
          IN  /\ data' = r.data
              /\ result' = [op |-> "filtered_back_project", f |-> f, out |-> r.out]
    /\ UNCHANGED <<phase, grid, calls, objects, par>>

Next ==
    \/ Construct
    \/ ThetaAt
    \/ XiAt
    \/ GetContinuous
    \/ GetContinuousCustom
    \/ AddObject
    \/ BackProject
    \/ FilteredBackProject

Spec == Init /\ [][Next]_vars

-----------------------------------------------------------------------------
(* Properties of the Projection grid *)

Lookups == {"get_continuous", "get_continuous_custom"}

\* the array a lookup read: self.data, or the array passed to get_continuous_custom
ArrayOf(op) == IF op = "get_continuous" THEN data ELSE external_data(grid)

\* the column the clamp law assigns to xi_val
ClampColumn(g, xi_val) ==
    IF RLt(xi_val, R(g.xi_min)) THEN 0
    ELSE IF RLe(R(g.xi_max), xi_val) THEN g.xi_steps - 1
    ELSE RFloor(RDiv(RSub(xi_val, R(g.xi_min)), g.xi_step_size))

\* C1 -- as claimed: on every constructed grid, for every valid row and every xi,
\* get_continuous and get_continuous_custom return the cell of column 0 when
\* xi < xi_min, of the last column when xi >= xi_max, and of column
\* floor((xi - xi_min) / xi_step_size), a column of the grid, otherwise.
C1_ClampLaw ==
    (phase = "ready" /\ result.op \in Lookups) =>
        LET col == ClampColumn(grid, result.xi)
        IN  /\ col \in 0 .. grid.xi_steps - 1
            /\ result.out = Ok(ArrayOf(result.op)[result.theta_idx][col])

\* the clamp law on the grids whose xi range is not a single point
ClampLawNonDegenerate ==
    (phase = "ready" /\ result.op \in Lookups /\ grid.xi_min # grid.xi_max) =>
        LET col == ClampColumn(grid, result.xi)
        IN  /\ col \in 0 .. grid.xi_steps - 1
            /\ result.out = Ok(ArrayOf(result.op)[result.theta_idx][col])

\* the value of an array at a cell
At(d, cell) == d[cell.theta_idx][cell.xi_idx]

\* the sum of the line integrals of the add_object calls i .. Len(log) at a cell
RECURSIVE SumOfCalls(_, _, _, _, _)
SumOfCalls(h, g, log, cell, i) ==
    IF i > Len(log)
    THEN 0
    ELSE project_attenuation(h, log[i].obj, theta(g, cell.theta_idx),
                             xi(g, cell.xi_idx), log[i].eta_range).val
         + SumOfCalls(h, g, log, cell, i + 1)

Cells(g) == {[theta_idx |-> t, xi_idx |-> x] : t \in 0 .. g.theta_steps - 1,
                                               x \in 0 .. g.xi_steps - 1}

\* C2 -- in every state of a constructed grid, whatever add_object calls and read
\* queries led to it, every cell of data is the sum over the add_object calls
\* made so far of the line integral of the call's object at the cell's angle and
\* offset: zero before the first call, and two equal calls count twice.
C2_Accumulation ==
    phase = "ready" =>
        \A cell \in Cells(grid) :
            At(data, cell) = SumOfCalls(objects, grid, calls, cell, 1)

\* C2 witness: the same call made twice, then a read query, with a nonzero cell
C2_Witness ==
    /\ phase = "ready"
    /\ Len(calls) = 2
    /\ calls[1] = calls[2]
    /\ result.op \in Lookups
    /\ \E cell \in Cells(grid) : At(data, cell) # 0

\* C3 -- as claimed: __init__ raises for a step count <= 0 and for a range whose
\* bounds are equal, so that a constructed grid has both step sizes > 0 and no
\* query divides by a zero step size.
C3_Validation ==
    /\ (result.op = "__init__" /\
          (\/ result.theta_steps <= 0 \/ result.xi_steps <= 0
           \/ result.theta_range[1] = result.theta_range[2]
           \/ result.xi_range[1] = result.xi_range[2]))
          => result.out.kind # "ok"
    /\ phase = "ready" => (grid.theta_step_size.n > 0 /\ grid.xi_step_size.n > 0)
    /\ phase = "ready" => result.out.kind # "ZeroDivisionError"

\* the part of C3 that the code has: a step count <= 0 makes __init__ raise
StepCountsValidated ==
    (result.op = "__init__" /\ (result.theta_steps <= 0 \/ result.xi_steps <= 0))
        => (result.out.kind # "ok" /\ phase = "failed")

\* exceptions that report a failed computation
ComputationErrors == {"ZeroDivisionError", "ArithmeticError", "OverflowError",
                      "FloatingPointError", "ValueError"}

\* a square array of side n with a number in every cell
IsSquareArray(a, n) ==
    /\ DOMAIN a = 0 .. n - 1
    /\ \A y \in 0 .. n - 1 : DOMAIN a[y] = 0 .. n - 1 /\ \A x \in 0 .. n - 1 : a[y][x] \in Int

\* C4 -- as claimed: back_project either returns a fully populated square array
\* of side xi_steps or raises a computation error.
C4_BackProjectReturns ==
    (phase = "ready" /\ result.op = "back_project") =>
        \/ result.out.kind = "ok" /\ IsSquareArray(result.out.val, grid.xi_steps)
        \/ result.out.kind \in ComputationErrors

\* data as add_object would have left it had every range been given in order
RECURSIVE ReplayNormalized(_, _, _, _)
ReplayNormalized(h, g, log, i) ==
    IF i = 0
    THEN zeros(g.theta_steps, g.xi_steps)
    ELSE add_object(h, g, ReplayNormalized(h, g, log, i - 1), log[i].obj,
                    <<Min2(log[i].eta_range), Max2(log[i].eta_range)>>).data

\* C5 -- as claimed: an eta_range given upper bound first contributes to every
\* cell what the same range given in order contributes.
C5_RangeNormalized ==
    phase = "ready" => data = ReplayNormalized(objects, grid, calls, Len(calls))

-----------------------------------------------------------------------------
(* The ObjectCollection heap: append and attenuation on collections that may *)
(* hold one another                                                          *)

Candidates == {rectangle_1, image_1, Collection("c1"), Collection("c2")} \cup NonSources

Points == {<<Rat(-1, 2), Rat(-1, 2)>>, <<Rat(1, 2), Rat(1, 2)>>, <<R(0), R(-1)>>}

RECURSIVE TotalMembers(_, _)
TotalMembers(h, cs) ==
    IF cs = {} THEN 0
    ELSE LET c == CHOOSE c \in cs : TRUE
         IN  Len(h[c]) + TotalMembers(h, cs \ {c})

InitColl ==
    /\ phase = "new"
    /\ grid = NoGrid
    /\ data = <<>>
    /\ calls = <<>>
    /\ objects = [c \in CollIds |-> <<>>]
    /\ result = [op |-> "none"]
    /\ par = ParIdle

CollAppend ==
    /\ TotalMembers(objects, CollIds) < MaxAppends
    /\ \E c \in CollIds, obj \in Candidates :
          LET r == append(objects, c, obj)
          IN  /\ objects' = r.objects
              /\ result' = [op |-> "append", c |-> c, obj |-> obj, out |-> r.out]
    /\ UNCHANGED <<phase, grid, data, calls, par>>

CollAttenuation ==
    /\ \E c \in CollIds, p \in Points :
          result' = [op |-> "attenuation", c |-> c, x |-> p[1], y |-> p[2],
                     out |-> attenuation(objects, Collection(c), p[1], p[2], 0)]
    /\ UNCHANGED <<phase, grid, data, calls, objects, par>>

NextColl ==
    \/ CollAppend
    \/ CollAttenuation

SpecColl == InitColl /\ [][NextColl]_vars

\* C6 -- append raises at once, leaving every collection as it was, when its
\* argument is not an AttenuationObject, and otherwise adds the argument after
\* the members the collection had, which keep their order; so every member of
\* every collection is an AttenuationObject and attenuation never meets a
\* member without that method.
C6_AppendChecked ==
    /\ [][result'.op = "append" =>
            IF result'.obj \in NonSources
            THEN /\ result'.out.kind = "RuntimeError"
                 /\ objects' = objects
            ELSE /\ result'.out.kind = "ok"
                 /\ Len(objects'[result'.c]) = Len(objects[result'.c]) + 1
                 /\ objects'[result'.c][Len(objects'[result'.c])] = result'.obj
                 /\ SubSeq(objects'[result'.c], 1, Len(objects[result'.c])) = objects[result'.c]
                 /\ \A c \in CollIds \ {result'.c} : objects'[c] = objects[c]]_vars
    /\ [](\A c \in CollIds : \A i \in 1 .. Len(objects[c]) : objects[c][i] \notin NonSources)
    /\ [](result.op = "attenuation" => result.out.kind # "AttributeError")

\* C6 witness: a rejected append to a collection that already has members
C6_Witness ==
    /\ result.op = "append"
    /\ result.obj \in NonSources
    /\ Len(objects[result.c]) = 2

\* the sum of the attenuations of the members objs[order[1]], objs[order[2]], ...
RECURSIVE SumInOrder(_, _, _, _, _, _)
SumInOrder(h, objs, order, i, x, y) ==
    IF i > Len(objs)
    THEN 0
    ELSE attenuation(h, objs[order[i]], x, y, 0).val + SumInOrder(h, objs, order, i + 1, x, y)

\* C7 -- as claimed: for every collection built by successful appends and every
\* point, attenuation returns the sum of the members' attenuations, taken in
\* any order.
C7_SumOfMembers ==
    result.op = "attenuation" =>
        /\ result.out.kind = "ok"
        /\ \A order \in Permutations(1 .. Len(objects[result.c])) :
              result.out.val = SumInOrder(objects, objects[result.c], order, 1, result.x, result.y)

\* the sum law whenever attenuation returns
SumOfMembersWhenReturned ==
    (result.op = "attenuation" /\ result.out.kind = "ok") =>
        \A order \in Permutations(1 .. Len(objects[result.c])) :
            result.out.val = SumInOrder(objects, objects[result.c], order, 1, result.x, result.y)

-----------------------------------------------------------------------------
(* Rectangle: construction from corners in any order, then attenuation *)

Corners == {-1, 0, 1}
Factors == {0, 1, 2}
Coords == {Rat(-3, 2), R(-1), Rat(-1, 2), R(0), R(1), Rat(3, 2)}

InitRect ==
    /\ phase = "new"
    /\ grid = NoGrid
    /\ data = <<>>
    /\ calls = <<>>
    /\ objects = [c \in CollIds |-> <<>>]
    /\ par = ParIdle
    /\ \E x1 \in Corners, x2 \in Corners, y1 \in Corners, y2 \in Corners, f \in Factors :
          result = [op |-> "args", x1 |-> x1, x2 |-> x2, y1 |-> y1, y2 |-> y2, f |-> f]

RectangleInit ==
    /\ result.op = "args"
    /\ result' = [op |-> "Rectangle", x1 |-> result.x1, x2 |-> result.x2,
                  y1 |-> result.y1, y2 |-> result.y2, f |-> result.f,
                  rect |-> Rectangle(result.x1, result.x2, result.y1, result.y2, result.f)]
    /\ UNCHANGED <<phase, grid, data, calls, objects, par>>

RectangleAttenuation ==
    /\ result.op \in {"Rectangle", "Rectangle.attenuation"}
    /\ \E x \in Coords, y \in Coords :
          result' = [op |-> "Rectangle.attenuation", x1 |-> result.x1, x2 |-> result.x2,
                     y1 |-> result.y1, y2 |-> result.y2, f |-> result.f,
                     rect |-> result.rect, x |-> x, y |-> y,
                     out |-> attenuation(objects, result.rect, x, y, 0)]
    /\ UNCHANGED <<phase, grid, data, calls, objects, par>>

NextRect ==
    \/ RectangleInit
    \/ RectangleAttenuation

SpecRect == InitRect /\ [][NextRect]_vars

\* the point of a query lies in the closed box spanned by the corners as given
InBox(r) ==
    /\ RLe(R(Min2(<<r.x1, r.x2>>)), r.x) /\ RLe(r.x, R(Max2(<<r.x1, r.x2>>)))
    /\ RLe(R(Min2(<<r.y1, r.y2>>)), r.y) /\ RLe(r.y, R(Max2(<<r.y1, r.y2>>)))

\* C8 -- as claimed: attenuation(x, y) = f if and only if (x, y) lies in the
\* closed box, and it is 0 otherwise.
C8_FactorIffInside ==
    result.op = "Rectangle.attenuation" =>
        /\ result.out.kind = "ok"
        /\ (result.out.val = result.f) <=> InBox(result)
        /\ ~InBox(result) => result.out.val = 0

\* C8, amended -- for corners given in any order, attenuation(x, y) is f when
\* (x, y) lies in the closed box (boundary included) and 0 otherwise; it is f
\* only inside the box provided f # 0.
C8_FactorInsideZeroOutside ==
    result.op = "Rectangle.attenuation" =>
        /\ result.out.kind = "ok"
        /\ result.rect.x1 <= result.rect.x2 /\ result.rect.y1 <= result.rect.y2
        /\ result.out.val = IF InBox(result) THEN result.f ELSE 0
        /\ result.f # 0 => ((result.out.val = result.f) <=> InBox(result))

\* C8 witness: corners given in reverse order, the point on the boundary
C8_Witness ==
    /\ result.op = "Rectangle.attenuation"
    /\ result.x1 > result.x2 /\ result.y1 > result.y2
    /\ result.x = R(result.x1) /\ result.y = R(result.y2)
    /\ result.f # 0 /\ result.out.val = result.f

-----------------------------------------------------------------------------
(* The cell tasks of add_object run by a pool of workers: the cells are     *)
(* partitioned among the workers, each worker takes its cells one at a time *)
(* in any order, and a task is the body of the loop: load, compute, store   *)

Workers == {"w1", "w2"}
ParSources == {rectangle_2, Collection("c2")}
ParEtaRange == <<-2, 2>>
ParGrid == Projection_init(<<0, 2>>, 2, <<-1, 1>>, 2)

InitPar ==
    /\ phase = "ready"
    /\ grid = ParGrid.grid
    /\ data = ParGrid.data
    /\ calls = <<>>
    /\ objects = Scene
    /\ result = [op |-> "__init__", out |-> ParGrid.out]
    /\ par = ParIdle

ParStart ==
    /\ ~par.active
    /\ Len(calls) < MaxParCalls
    /\ \E obj \in ParSources, owner \in [Cells(grid) -> Workers] :
          par' = [active |-> TRUE, obj |-> obj, eta_range |-> ParEtaRange,
                  owner |-> owner,
                  st |-> [cell \in Cells(grid) |-> "todo"],
                  old |-> [cell \in Cells(grid) |-> 0],
                  stores |-> [cell \in Cells(grid) |-> 0],
                  pre |-> data]
    /\ UNCHANGED <<phase, grid, data, calls, objects, result>>

ParLoad ==
    /\ par.active
    /\ \E cell \in Cells(grid) :
          /\ par.st[cell] = "todo"
          /\ \A other \in Cells(grid) :
                par.owner[other] = par.owner[cell] => par.st[other] # "loaded"
          /\ par' = [par EXCEPT !.st[cell] = "loaded", !.old[cell] = cell_load(data, cell)]
    /\ UNCHANGED <<phase, grid, data, calls, objects, result>>

ParStore ==
    /\ par.active
    /\ \E cell \in Cells(grid) :
          /\ par.st[cell] = "loaded"
          /\ data' = cell_store(data, cell, par.old[cell],
                        cell_contribution(objects, grid, par.obj, par.eta_range, cell).val)
          /\ par' = [par EXCEPT !.st[cell] = "done", !.old[cell] = 0,
                                !.stores[cell] = @ + 1]
    /\ UNCHANGED <<phase, grid, calls, objects, result>>

ParJoin ==
    /\ par.active
    /\ \A cell \in Cells(grid) : par.st[cell] = "done"
    /\ calls' = Append(calls, [obj |-> par.obj, eta_range |-> par.eta_range])
    /\ result' = [op |-> "add_object", obj |-> par.obj, eta_range |-> par.eta_range,
                  out |-> Ok("None")]
    /\ par' = ParIdle
    /\ UNCHANGED <<phase, grid, data, objects>>

NextPar ==
    \/ ParStart
    \/ ParLoad
    \/ ParStore
    \/ ParJoin

SpecPar == InitPar /\ [][NextPar]_vars

\* C10 -- while the cell tasks of one add_object call run on the workers in any
\* order and interleaving, the grid parameters and the collections stay as they
\* were, a cell whose task has stored holds what the sequential loop leaves in
\* it, every other cell is untouched, and no cell is stored twice; so when all
\* tasks are done data is the result of the sequential loop.
C10_CellTasksIndependent ==
    par.active =>
        LET seq == add_object(objects, grid, par.pre, par.obj, par.eta_range).data
        IN  /\ grid = ParGrid.grid /\ objects = Scene
            /\ \A cell \in Cells(grid) :
                  IF par.st[cell] = "done"
                  THEN /\ At(data, cell) = At(seq, cell)
                       /\ par.stores[cell] = 1
                  ELSE /\ At(data, cell) = At(par.pre, cell)
                       /\ par.stores[cell] = 0
            /\ (\A cell \in Cells(grid) : par.st[cell] = "done") => data = seq

\* C10 witness: the tasks split between two workers, all done, on a grid that
\* an earlier call had already filled
C10_Witness ==
    /\ par.active
    /\ Len(calls) = 1
    /\ \A cell \in Cells(grid) : par.st[cell] = "done"
    /\ \E a \in Cells(grid), b \in Cells(grid) : par.owner[a] # par.owner[b]
    /\ data # par.pre
    /\ \E cell \in Cells(grid) : At(par.pre, cell) # 0

====
